---- MODULE Spec2Model ----
(***************************************************************************)
(* Peer collaboration ranking and feedback assignment engine.              *)
(*   services/collaboration-tracker.ts  interaction ledger                 *)
(*   services/peer-ranker.ts            collaboration ranker               *)
(*   services/feedback-assigner.ts      cycles, assignment, statistics     *)
(*   config/migrate.ts                  relational schema (SQLite)         *)
(*                                                                         *)
(* Time is counted in ticks, TicksPerDay ticks to a day.  Stored SQLite    *)
(* timestamps ('YYYY-MM-DD HH:MM:SS') and JavaScript ISO strings           *)
(* ('YYYY-MM-DDTHH:MM:SS.sssZ') are modelled as <<day, separator, tick of  *)
(* day>> and compared the way SQLite compares TEXT, byte by byte.          *)
(* Scores are kept exact: collaboration_score is the JavaScript value      *)
(* times 10 * DecayDays * TicksPerDay.                                     *)
(***************************************************************************)
EXTENDS Integers, Sequences, FiniteSets, TLC

\* ---------------------------------------------------------------- bounds
NumEmployees == 3
TicksPerDay == 2
MaxInteractions == 2
MaxAdvances == 1
MaxCycles == 2
MaxRuns == 2
MaxResponses == 1
MaxFaults == 1
MaxPeers == 2
MaxElapses == 2
MaxRankCalls == 2
MaxSamples == 1
MaxRankOps == 5
MaxStatRows == 10
MaxCloses == 2
MaxPasses == 1
QuotaPeers == 1
NumQuestions == 2
MaxSessions == 2
MaxChatResponses == 2
MaxCycleOps == 5

\* ------------------------------------------------------- program constants
RecencyDays == 30
DecayDays == 90
RankBuffer == 10
MinutesPerPoint == 10
SpaceChar == 32
TChar == 84
CloseAfterDays == 7
CloseRatePercent == 90
OverdueDays == 2

VARIABLES employees, timezone, chat_sessions, collaborations, peer_rankings,
          feedback_cycles, feedback_requests, feedback_responses, now, proc,
          hist

vars == <<employees, timezone, chat_sessions, collaborations, peer_rankings,
          feedback_cycles, feedback_requests, feedback_responses, now, proc,
          hist>>

db == <<collaborations, peer_rankings, feedback_cycles,
        feedback_requests, feedback_responses>>

EmployeeIds == 1..NumEmployees
Procs == {1, 2}
NoManager == 0
MissingCycle == 0
InteractionInputs == {"chat"}
InteractionPairs == {<<2, p>> : p \in EmployeeIds}
CountInputs == {1}
MinuteInputs == {0}
PeersInputs == 1..MaxPeers
RecencyTicks == RecencyDays * TicksPerDay
Now0 == RecencyTicks + 1
ClockJumps == {1, RecencyTicks - 1}
CycleLength == 7 * TicksPerDay

\* ------------------------------------------------------------ sequences
Max(a, b) == IF a >= b THEN a ELSE b

Min(a, b) == IF a <= b THEN a ELSE b

SetMax(S) == CHOOSE x \in S : \A y \in S : y <= x

\* Array.prototype.slice(0, n) for n >= 0
Slice(s, n) == SubSeq(s, 1, Min(n, Len(s)))

Range(s) == {s[i] : i \in 1..Len(s)}

\* ------------------------------------------------------------ timestamps
\* SQLite datetime('now') / CURRENT_TIMESTAMP: 'YYYY-MM-DD HH:MM:SS' (UTC)
SqlDatetime(t) == <<t \div TicksPerDay, SpaceChar, t % TicksPerDay>>

\* Date.prototype.toISOString(): 'YYYY-MM-DDTHH:MM:SS.sssZ'
ToISOString(t) == <<t \div TicksPerDay, TChar, t % TicksPerDay>>

\* the instant a stored (UTC) timestamp denotes
Instant(s) == s[1] * TicksPerDay + s[3]

\* new Date(text).getTime() of a stored timestamp: text without 'T' and 'Z'
\* is read as local time, timezone ticks behind UTC
DateParse(s) == Instant(s) + timezone

\* SQLite TEXT comparison a > b (BINARY collation, left to right)
TextGreater(a, b) ==
  \/ a[1] > b[1]
  \/ a[1] = b[1] /\ a[2] > b[2]
  \/ a[1] = b[1] /\ a[2] = b[2] /\ a[3] > b[3]

\* ------------------------------------------------- collaboration-tracker
\* INSERT ... ON CONFLICT(employee_id, peer_id, interaction_type) DO UPDATE
Upsert(C, e, p, type, count, minutes, t) ==
  LET old == {c \in C : c.employee_id = e /\ c.peer_id = p
                        /\ c.interaction_type = type}
  IN IF old = {}
     THEN C \cup {[employee_id |-> e, peer_id |-> p, interaction_type |-> type,
                   interaction_count |-> count, total_minutes |-> minutes,
                   last_interaction |-> SqlDatetime(t)]}
     ELSE (C \ old) \cup
          {[c EXCEPT !.interaction_count = @ + count,
                     !.total_minutes = @ + minutes,
                     !.last_interaction = SqlDatetime(t)] : c \in old}

\* mutant: the reverse direction is not written
recordInteraction_oneWay(C, e, p, type, count, minutes, t) ==
  Upsert(C, e, p, type, count, minutes, t)

recordInteraction(C, e, p, type, count, minutes, t) ==
  Upsert(Upsert(C, e, p, type, count, minutes, t), p, e, type, count, minutes, t)

\* ------------------------------------------------------------ peer-ranker
WEIGHTS(type) ==
  CASE type = "chat" -> 1
    [] type = "meeting" -> 3
    [] type = "task" -> 5
    [] type = "file" -> 2
    [] OTHER -> 1

\* 1 - days/90 floored at 0.5, times DecayDays * TicksPerDay
recencyMultiplier(dt) ==
  Max((DecayDays * TicksPerDay) \div 2, DecayDays * TicksPerDay - dt)

MetricPoints(m) ==
  MinutesPerPoint * m.interaction_count * WEIGHTS(m.interaction_type)
    + m.total_minutes

RECURSIVE SumPoints(_)
SumPoints(metrics) ==
  IF metrics = {} THEN 0
  ELSE LET m == CHOOSE x \in metrics : TRUE
       IN MetricPoints(m) + SumPoints(metrics \ {m})

\* mutant: every interaction type decays by its own last_interaction
RECURSIVE calculateCollaborationScore_perType(_, _)
calculateCollaborationScore_perType(metrics, t) ==
  IF metrics = {} THEN 0
  ELSE LET m == CHOOSE x \in metrics : TRUE
       IN MetricPoints(m) * recencyMultiplier(t - DateParse(m.last_interaction))
            + calculateCollaborationScore_perType(metrics \ {m}, t)

calculateCollaborationScore(metrics, t) ==
  LET score == SumPoints(metrics)
  IN IF metrics # {}
     THEN LET mostRecentInteraction ==
                SetMax({DateParse(m.last_interaction) : m \in metrics})
          IN score * recencyMultiplier(t - mostRecentInteraction)
     ELSE score

\* mutant: equal scores come out in descending peer id order
RECURSIVE SortRankings_tiesDescending(_)
SortRankings_tiesDescending(R) ==
  IF R = {} THEN <<>>
  ELSE LET best == CHOOSE r \in R : \A q \in R :
                     \/ r.collaboration_score > q.collaboration_score
                     \/ /\ r.collaboration_score = q.collaboration_score
                        /\ r.peer_id >= q.peer_id
       IN <<best>> \o SortRankings_tiesDescending(R \ {best})

\* rankings.sort((a, b) => b.collaboration_score - a.collaboration_score):
\* a stable sort of entries that Object.entries yields in ascending key order
RECURSIVE SortRankings(_)
SortRankings(R) ==
  IF R = {} THEN <<>>
  ELSE LET best == CHOOSE r \in R : \A q \in R :
                     \/ r.collaboration_score > q.collaboration_score
                     \/ /\ r.collaboration_score = q.collaboration_score
                        /\ r.peer_id <= q.peer_id
       IN <<best>> \o SortRankings(R \ {best})

\* the rows rankPeers computes for one employee, rank_position assigned
rankPeers(C, e, t) ==
  LET mine == {c \in C : c.employee_id = e}
      peerIds == {c.peer_id : c \in mine}
      scored == {[peer_id |-> p,
                  collaboration_score |->
                    calculateCollaborationScore({c \in mine : c.peer_id = p}, t)]
                 : p \in peerIds}
      sorted == SortRankings(scored)
  IN [i \in 1..Len(sorted) |->
        [employee_id |-> e, peer_id |-> sorted[i].peer_id,
         collaboration_score |-> sorted[i].collaboration_score,
         rank_position |-> i]]

RECURSIVE OrderByRank(_)
OrderByRank(R) ==
  IF R = {} THEN <<>>
  ELSE LET first == CHOOSE r \in R : \A q \in R :
                      \/ r.rank_position < q.rank_position
                      \/ /\ r.rank_position = q.rank_position
                         /\ r.peer_id <= q.peer_id
       IN <<first>> \o OrderByRank(R \ {first})

\* SELECT ... FROM peer_rankings pr JOIN employees e ON pr.peer_id = e.id
\* WHERE pr.employee_id = ? ORDER BY pr.rank_position ASC LIMIT ?
getRankedPeers(PR, E, e, limit) ==
  Slice(OrderByRank({r \in PR : r.employee_id = e /\ r.peer_id \in DOMAIN E}),
        limit)

\* the whole of rankAllPeers run without interruption
rankAllPeers(C, E, t) ==
  UNION {Range(rankPeers(C, e, t)) : e \in DOMAIN E}

\* mutant: nothing is written when there is nothing to rank
saveRankings_skipEmpty(PR, e, rankings) ==
  IF rankings = <<>> THEN PR
  ELSE {r \in PR : r.employee_id # e} \cup Range(rankings)

\* DELETE FROM peer_rankings WHERE employee_id = ?, then one INSERT per row
saveRankings(PR, e, rankings) ==
  {r \in PR : r.employee_id # e} \cup Range(rankings)

\* ------------------------------------------------------ sample generation
\* the recordInteraction calls generateSampleData makes for one pair; draw
\* holds what the Math.random() calls gave (0: the branch was not taken)
samplePair(C, E, a, b, draw, t) ==
  LET sameDepartment == E[a].department = E[b].department
      C1 == recordInteraction(C, a, b, "chat", draw.chat, 0, t)
      C2 == IF draw.meeting > 0
            THEN recordInteraction(C1, a, b, "meeting", 1, draw.meeting, t)
            ELSE C1
      C3 == IF sameDepartment /\ draw.task > 0
            THEN recordInteraction(C2, a, b, "task", draw.task, 0, t)
            ELSE C2
      C4 == IF draw.file > 0
            THEN recordInteraction(C3, a, b, "file", draw.file, 0, t)
            ELSE C3
  IN C4

\* the pairs (employees[i], employees[j]), i < j, in loop order
RECURSIVE samplePairs(_, _)
samplePairs(ids, i) ==
  IF i >= Len(ids) THEN <<>>
  ELSE [j \in 1..(Len(ids) - i) |-> <<ids[i], ids[i + j]>>]
         \o samplePairs(ids, i + 1)

RECURSIVE sampleLoop(_, _, _, _, _, _)
sampleLoop(C, E, pairs, draws, k, t) ==
  IF k > Len(pairs) THEN C
  ELSE sampleLoop(samplePair(C, E, pairs[k][1], pairs[k][2], draws[k], t),
                  E, pairs, draws, k + 1, t)

\* the ledger after generateSampleData; with no employee it throws first
generateSampleData(C, ids, E, draws, t) ==
  IF ids = <<>> THEN C
  ELSE sampleLoop({}, E, samplePairs(ids, 1), draws, 1, t)

\* ------------------------------------------------------- feedback-assigner
NullCycle == [id |-> MissingCycle, status |-> "none", end_date |-> 0]

\* mutant: a missing cycle is replaced by a default one instead of undefined
getCycle_default(FC, cycleId) ==
  IF \E c \in FC : c.id = cycleId
  THEN CHOOSE c \in FC : c.id = cycleId
  ELSE [id |-> cycleId, status |-> "active", end_date |-> 0]

\* get('SELECT * FROM feedback_cycles WHERE id = ?'): the row or undefined
getCycle(FC, cycleId) ==
  IF \E c \in FC : c.id = cycleId
  THEN CHOOSE c \in FC : c.id = cycleId
  ELSE NullCycle

\* `cycle_${Date.now()}`
NewCycleId(t) == t

\* mutant: a new cycle starts as a draft
createCycle_draft(FC, t, end) ==
  FC \cup {[id |-> NewCycleId(t), status |-> "draft", end_date |-> end]}

\* INSERT INTO feedback_cycles (id, ..., end_date, status, ...)
\* VALUES (?, ..., ?, 'active', ...)
createCycle(FC, t, end) ==
  FC \cup {[id |-> NewCycleId(t), status |-> "active", end_date |-> end]}

\* mutant: the existence check finds nothing
checkExistingAssignment_never(FR, requesterId, providerId, cycleId) == FALSE

\* mutant: the existence check binds requester and provider the wrong way round
checkExistingAssignment_swapped(FR, requesterId, providerId, cycleId) ==
  \E r \in FR : /\ r.requester_id = providerId
                /\ r.provider_id = requesterId
                /\ r.cycle_id = cycleId

checkExistingAssignment(FR, requesterId, providerId, cycleId) ==
  \E r \in FR : /\ r.requester_id = requesterId
                /\ r.provider_id = providerId
                /\ r.cycle_id = cycleId

\* the row INSERT INTO feedback_requests adds (id is AUTOINCREMENT, rows are
\* never deleted; status defaults to 'pending')
createFeedbackRequest(FR, requesterId, providerId, cycleId, type, due, t) ==
  [id |-> Cardinality(FR) + 1, requester_id |-> requesterId,
   provider_id |-> providerId, cycle_id |-> cycleId, request_type |-> type,
   status |-> "pending", assigned_at |-> SqlDatetime(t), due_date |-> due]

\* WHERE requester_id = ? AND submitted_at > ? with thirtyDaysAgo.toISOString()
recentProviderIds(RESP, requesterId, t) ==
  {r.provider_id : r \in
     {x \in RESP : /\ x.requester_id = requesterId
                   /\ TextGreater(x.submitted_at, ToISOString(t - RecencyTicks))}}

filterRecentFeedback(peers, requesterId, RESP, t) ==
  LET recent == recentProviderIds(RESP, requesterId, t)
  IN SelectSeq(peers, LAMBDA peer : peer.peer_id \notin recent)

\* mutant: the top peersPerEmployee are cut out before the recency filter
selectPeers_sliceFirst(PR, E, RESP, e, peersPerEmployee, t) ==
  filterRecentFeedback(
    Slice(getRankedPeers(PR, E, e, peersPerEmployee + RankBuffer),
          peersPerEmployee),
    e, RESP, t)

\* availablePeers.slice(0, peersPerEmployee) of the filtered top
\* peersPerEmployee + 10 ranked peers
selectPeers(PR, E, RESP, e, peersPerEmployee, t) ==
  Slice(filterRecentFeedback(
          getRankedPeers(PR, E, e, peersPerEmployee + RankBuffer), e, RESP, t),
        peersPerEmployee)

RECURSIVE SortedIds(_)
SortedIds(S) ==
  IF S = {} THEN <<>>
  ELSE LET m == CHOOSE x \in S : \A y \in S : x <= y
       IN <<m>> \o SortedIds(S \ {m})

\* query('SELECT * FROM employees'), in rowid order
listEmployees(E) == SortedIds(DOMAIN E)

\* query('SELECT id FROM employees WHERE manager_id = ?')
listReports(E, managerId) ==
  SortedIds({e \in DOMAIN E : E[e].manager_id = managerId})

\* check-then-create over a list of providers, uninterrupted
RECURSIVE assignEach(_, _, _, _, _, _, _)
assignEach(FR, providers, requesterId, cycleId, type, due, t) ==
  IF providers = <<>> THEN FR
  ELSE LET p == Head(providers)
           FR1 == IF checkExistingAssignment(FR, requesterId, p, cycleId)
                  THEN FR
                  ELSE FR \cup {createFeedbackRequest(FR, requesterId, p,
                                                      cycleId, type, due, t)}
       IN assignEach(FR1, Tail(providers), requesterId, cycleId, type, due, t)

\* mutant: the recency filter is applied to the manager as well
assignEmployee_filteredManager(FR, PR, E, RESP, e, cycleId, peersPerEmployee, include360, due, t) ==
  LET selected == selectPeers(PR, E, RESP, e, peersPerEmployee, t)
      peerIds == [i \in 1..Len(selected) |-> selected[i].peer_id]
      FR1 == assignEach(FR, peerIds, e, cycleId, "peer", due, t)
      FR2 == IF /\ include360
                /\ E[e].manager_id # NoManager
                /\ E[e].manager_id \notin recentProviderIds(RESP, e, t)
             THEN assignEach(FR1, <<E[e].manager_id>>, e, cycleId, "manager", due, t)
             ELSE FR1
      FR3 == IF include360 /\ E[e].is_manager
             THEN assignEach(FR2, listReports(E, e), e, cycleId, "upward", due, t)
             ELSE FR2
  IN FR3

\* mutant: the recency filter is applied to the direct reports as well
assignEmployee_filteredReports(FR, PR, E, RESP, e, cycleId, peersPerEmployee, include360, due, t) ==
  LET selected == selectPeers(PR, E, RESP, e, peersPerEmployee, t)
      peerIds == [i \in 1..Len(selected) |-> selected[i].peer_id]
      FR1 == assignEach(FR, peerIds, e, cycleId, "peer", due, t)
      FR2 == IF include360 /\ E[e].manager_id # NoManager
             THEN assignEach(FR1, <<E[e].manager_id>>, e, cycleId, "manager", due, t)
             ELSE FR1
      fresh(x) == x \notin recentProviderIds(RESP, e, t)
      FR3 == IF include360 /\ E[e].is_manager
             THEN assignEach(FR2, SelectSeq(listReports(E, e), fresh), e,
                             cycleId, "upward", due, t)
             ELSE FR2
  IN FR3

\* one iteration of the employee loop, uninterrupted
assignEmployee(FR, PR, E, RESP, e, cycleId, peersPerEmployee, include360, due, t) ==
  LET selected == selectPeers(PR, E, RESP, e, peersPerEmployee, t)
      peerIds == [i \in 1..Len(selected) |-> selected[i].peer_id]
      FR1 == assignEach(FR, peerIds, e, cycleId, "peer", due, t)
      FR2 == IF include360 /\ E[e].manager_id # NoManager
             THEN assignEach(FR1, <<E[e].manager_id>>, e, cycleId, "manager", due, t)
             ELSE FR1
      FR3 == IF include360 /\ E[e].is_manager
             THEN assignEach(FR2, listReports(E, e), e, cycleId, "upward", due, t)
             ELSE FR2
  IN FR3

RECURSIVE assignLoop(_, _, _, _, _, _, _, _, _, _)
assignLoop(FR, PR, E, RESP, queue, cycleId, peersPerEmployee, include360, due, t) ==
  IF queue = <<>> THEN FR
  ELSE assignLoop(
         assignEmployee(FR, PR, E, RESP, Head(queue), cycleId,
                        peersPerEmployee, include360, due, t),
         PR, E, RESP, Tail(queue), cycleId, peersPerEmployee, include360, due, t)

\* feedback_requests after one uninterrupted assignFeedbackRequests call
assignFeedbackRequests(FR, C, FC, E, RESP, cycleId, peersPerEmployee, include360, t) ==
  LET cycle == getCycle(FC, cycleId)
  IN IF cycle = NullCycle THEN FR
     ELSE assignLoop(FR, rankAllPeers(C, E, t), E, RESP, listEmployees(E),
                     cycleId, peersPerEmployee, include360, cycle.end_date, t)

\* mutant: the rate is cut after two decimals, not rounded
getCycleStats_truncated(FR, cycleId) ==
  LET rows == {r \in FR : r.cycle_id = cycleId}
      total == Cardinality(rows)
      countOf(st) == Cardinality({r \in rows : r.status = st})
  IN IF total = 0
     THEN [total_requests |-> 0, completed_count |-> "NULL",
           pending_count |-> "NULL", overdue_count |-> "NULL",
           completion_rate |-> "NULL"]
     ELSE [total_requests |-> total, completed_count |-> countOf("completed"),
           pending_count |-> countOf("pending"),
           overdue_count |-> countOf("overdue"),
           completion_rate |-> (10000 * countOf("completed")) \div total]

\* ROUND(CAST(completed AS FLOAT) / COUNT(*) * 100, 2), in hundredths of a
\* percent; the SUMs and the rate are NULL over zero rows
getCycleStats(FR, cycleId) ==
  LET rows == {r \in FR : r.cycle_id = cycleId}
      total == Cardinality(rows)
      countOf(st) == Cardinality({r \in rows : r.status = st})
  IN IF total = 0
     THEN [total_requests |-> 0, completed_count |-> "NULL",
           pending_count |-> "NULL", overdue_count |-> "NULL",
           completion_rate |-> "NULL"]
     ELSE [total_requests |-> total, completed_count |-> countOf("completed"),
           pending_count |-> countOf("pending"),
           overdue_count |-> countOf("overdue"),
           completion_rate |->
             (2 * 10000 * countOf("completed") + total) \div (2 * total)]

\* UPDATE feedback_requests SET status = ? ... WHERE id = ?
updateRequestStatus(FR, requestId, status) ==
  {IF r.id = requestId THEN [r EXCEPT !.status = status] ELSE r : r \in FR}

\* -------------------------------------------------------- reminder system
\* Math.ceil(x / d) for d > 0
Ceil(x, d) == 0 - ((0 - x) \div d)

\* SELECT * FROM feedback_cycles WHERE status = 'active' AND end_date < ?
\* with now.toISOString(); end_date is the ISO text the client sent
endedCycles(FC, t) ==
  {c \in FC : /\ c.status = "active"
              /\ TextGreater(ToISOString(t), ToISOString(c.end_date))}

\* completionRate >= 0.9 || daysPastEnd >= 7; over zero requests the rate
\* is null / 0 = NaN and the comparison is false
closeCondition(FR, cycle, t) ==
  LET total == Cardinality({r \in FR : r.cycle_id = cycle.id})
      completed == Cardinality({r \in FR : /\ r.cycle_id = cycle.id
                                           /\ r.status = "completed"})
      daysPastEnd == Ceil(t - cycle.end_date, TicksPerDay)
  IN \/ total > 0 /\ 100 * completed >= CloseRatePercent * total
     \/ daysPastEnd >= CloseAfterDays

\* feedback_cycles after one autoCloseCycles pass
autoCloseCycles(FC, FR, t) ==
  {IF c \in endedCycles(FC, t) /\ closeCondition(FR, c, t)
   THEN [c EXCEPT !.status = "completed"] ELSE c : c \in FC}

\* daysUntilDue === -2 for a request read at readAt
overdueNow(request, readAt) ==
  Ceil(request.due_date - readAt, TicksPerDay) = 0 - OverdueDays

\* ---------------------------------------------------------- chat sessions
ChatActions == {"start_feedback", "remind_later", "submit", "edit", "none"}

\* a message without questionId or without value
NoAnswer == 0

\* context.currentQuestionIndex and context.questions before they are set
Undefined == 0 - 1

\* `chat_${Date.now()}_${employeeId}`
NewSessionId(t, employeeId) == <<t, employeeId>>

\* WHERE fr.provider_id = ? AND fr.status = 'pending', joined with the
\* requester and the cycle
getPendingRequests(FR, FC, E, employeeId) ==
  {r \in FR : /\ r.provider_id = employeeId
              /\ r.status = "pending"
              /\ r.requester_id \in DOMAIN E
              /\ \E c \in FC : c.id = r.cycle_id}

\* pendingRequests[0] under ORDER BY fr.due_date ASC: any row with the
\* earliest due date
nextRequests(FR, FC, E, employeeId) ==
  {r \in getPendingRequests(FR, FC, E, employeeId) :
     \A q \in getPendingRequests(FR, FC, E, employeeId) :
       r.due_date <= q.due_date}

\* state NOT IN ("completed", "cancelled", "snoozed")
openSessions(CS, employeeId, requestId) ==
  {s \in CS : /\ s.employee_id = employeeId
              /\ s.request_id = requestId
              /\ s.state \notin {"completed", "cancelled", "snoozed"}}

\* the row INSERT INTO chat_sessions adds: state 'greeting', context {}
newSession(t, employeeId, requestId) ==
  [id |-> NewSessionId(t, employeeId), employee_id |-> employeeId,
   request_id |-> requestId, state |-> "greeting",
   currentQuestionIndex |-> Undefined, responses |-> {},
   questions |-> Undefined]

\* action === 'start_feedback' && session.state !== 'greeting'
resetSession(session, action) ==
  IF action = "start_feedback" /\ session.state # "greeting"
  THEN [session EXCEPT !.state = "greeting",
                       !.currentQuestionIndex = Undefined,
                       !.responses = {}, !.questions = Undefined]
  ELSE session

\* (context.currentQuestionIndex || 0) + 1
nextIndex(session) ==
  (IF session.currentQuestionIndex = Undefined
   THEN 0 ELSE session.currentQuestionIndex) + 1

\* (context.questions || []).length
questionCount(session) ==
  IF session.questions = Undefined THEN 0 ELSE session.questions

\* the session row the message handler writes back: newState and context
handleMessage(session0, action, questionId) ==
  LET session == resetSession(session0, action)
  IN CASE session.state = "greeting" /\ action = "start_feedback" ->
            [session EXCEPT !.state = "collecting",
                            !.currentQuestionIndex = 0, !.responses = {},
                            !.questions = NumQuestions]
       [] session.state = "greeting" /\ action = "remind_later" ->
            [session EXCEPT !.state = "snoozed"]
       [] session.state = "collecting" /\ questionId # NoAnswer ->
            [session EXCEPT
               !.responses = @ \cup {questionId},
               !.currentQuestionIndex = nextIndex(session),
               !.state = IF nextIndex(session) < questionCount(session)
                         THEN "collecting" ELSE "review"]
       [] session.state = "review" /\ action = "submit" ->
            [session EXCEPT !.state = "completed"]
       [] session.state = "review" /\ action = "edit" ->
            [session EXCEPT !.state = "collecting",
                            !.currentQuestionIndex = 0]
       [] OTHER -> session

\* the review case with action 'submit' is the one that stores a response
submits(session, action) ==
  resetSession(session, action).state = "review" /\ action = "submit"

\* UPDATE chat_sessions SET state = 'cancelled' WHERE id = ?
cancelSession(CS, sessionId) ==
  {IF s.id = sessionId THEN [s EXCEPT !.state = "cancelled"] ELSE s : s \in CS}

\* ------------------------------------------------------------------ state
\* the organisation is seeded once and is a forest
OrgStar ==
  [e \in EmployeeIds |->
     [manager_id |-> IF e = 1 THEN NoManager ELSE 1, is_manager |-> e = 1,
      department |-> IF e <= 2 THEN "Engineering" ELSE "Product"]]

OrgChain ==
  [e \in EmployeeIds |->
     [manager_id |-> IF e = 1 THEN NoManager ELSE e - 1, is_manager |-> e = 1,
      department |-> IF e <= 2 THEN "Engineering" ELSE "Product"]]

\* no rankPeers call has returned yet
NoRanking == [employee |-> 0, at |-> 0, ledger |-> {}, rankings |-> <<>>]

\* no recordInteraction call has been made yet
NoCall == [employeeId |-> 0, peerId |-> 0, type |-> "none", count |-> 0,
           minutes |-> 0, before |-> {}]

\* no getCycleStats call has returned yet
NoStats == getCycleStats({}, MissingCycle)

IdleProc ==
  [pc |-> "idle", cycleId |-> MissingCycle, peersPerEmployee |-> 0,
   include360 |-> FALSE, queue |-> <<>>, rankings |-> <<>>, due_date |-> 0,
   rankedPeers |-> <<>>, selectedPeers |-> <<>>, reports |-> <<>>,
   assignments |-> <<>>, error |-> "none", failedAt |-> "none",
   call |-> NoCall, stats |-> NoStats, readAt |-> 0]

RankingPcs == {"rankAll", "rankPeers", "saveDelete", "saveInsert"}

EmployeeLoopPcs ==
  {"getRankedPeers", "filterRecentFeedback", "checkPeer", "createPeer",
   "checkManager", "createManager", "listReports", "checkReport",
   "createReport"}

RunningPcs == RankingPcs \cup {"getCycle", "listEmployees"} \cup EmployeeLoopPcs

Running(p) == proc[p].pc \in RunningPcs

NoneRunning == \A p \in Procs : ~Running(p)

Init ==
  /\ employees = OrgStar
  /\ chat_sessions = {}
  /\ timezone = 0
  /\ collaborations = {}
  /\ peer_rankings = {}
  /\ feedback_cycles = {}
  /\ feedback_requests = {}
  /\ feedback_responses = {}
  /\ now = Now0
  /\ proc = [p \in Procs |-> IdleProc]
  /\ hist = [runs |-> 0, interactions |-> 0, advances |-> 0, faults |-> 0,
             quiet |-> FALSE, rerun |-> "none", startRequests |-> {},
             expected |-> {}, samples |-> 0, last |-> NoRanking,
             prev |-> NoRanking, closes |-> 0, passes |-> 0]

\* --------------------------------------------------- operations in between
RecordInteraction(e, p, type, count, minutes) ==
  /\ NoneRunning
  /\ hist.interactions < MaxInteractions
  /\ collaborations' = recordInteraction(collaborations, e, p, type, count,
                                         minutes, now)
  /\ hist' = [hist EXCEPT !.interactions = @ + 1, !.quiet = FALSE]
  /\ UNCHANGED <<employees, timezone, chat_sessions, peer_rankings, feedback_cycles, feedback_requests,
                 feedback_responses, now, proc>>

AdvanceClock(d) ==
  /\ NoneRunning
  /\ hist.advances < MaxAdvances
  /\ now' = now + d
  /\ hist' = [hist EXCEPT !.advances = @ + 1, !.quiet = FALSE]
  /\ UNCHANGED <<employees, timezone, chat_sessions, db, proc>>

\* createCycle: the INSERT is rejected when the primary key already exists
CreateCycle ==
  /\ NoneRunning
  /\ Cardinality(feedback_cycles) < MaxCycles
  /\ \A c \in feedback_cycles : c.id # NewCycleId(now)
  /\ feedback_cycles' = createCycle(feedback_cycles, now, now + CycleLength)
  /\ hist' = [hist EXCEPT !.quiet = FALSE]
  /\ UNCHANGED <<employees, timezone, chat_sessions, collaborations, peer_rankings, feedback_requests,
                 feedback_responses, now, proc>>

\* POST /responses for a request: insert the response, mark the request
SubmitResponse(r) ==
  /\ NoneRunning
  /\ Cardinality(feedback_responses) < MaxResponses
  /\ feedback_responses' = feedback_responses \cup
       {[id |-> Cardinality(feedback_responses) + 1, request_id |-> r.id,
         requester_id |-> r.requester_id, provider_id |-> r.provider_id,
         submitted_at |-> SqlDatetime(now)]}
  /\ feedback_requests' = updateRequestStatus(feedback_requests, r.id, "completed")
  /\ hist' = [hist EXCEPT !.quiet = FALSE]
  /\ UNCHANGED <<employees, timezone, chat_sessions, collaborations, peer_rankings, feedback_cycles,
                 now, proc>>

\* ------------------------------------------- assignFeedbackRequests, by await
SetProc(p, l) == proc' = [proc EXCEPT ![p] = l]

Throw(l, message) ==
  [l EXCEPT !.failedAt = l.pc, !.pc = "threw", !.error = message]

NextRanked(l) ==
  IF Tail(l.queue) = <<>>
  THEN [l EXCEPT !.queue = <<>>, !.pc = "getCycle"]
  ELSE [l EXCEPT !.queue = Tail(l.queue), !.pc = "rankPeers"]

InsertLoop(l) ==
  IF l.rankings = <<>> THEN NextRanked(l) ELSE [l EXCEPT !.pc = "saveInsert"]

NextEmployee(l) ==
  IF Tail(l.queue) = <<>>
  THEN [l EXCEPT !.queue = <<>>, !.pc = "returned"]
  ELSE [l EXCEPT !.queue = Tail(l.queue), !.pc = "getRankedPeers"]

ReportLoop(l) ==
  IF l.reports = <<>> THEN NextEmployee(l) ELSE [l EXCEPT !.pc = "checkReport"]

AfterManager(l, E) ==
  IF E[Head(l.queue)].is_manager
  THEN [l EXCEPT !.pc = "listReports"]
  ELSE NextEmployee(l)

AfterPeers(l, E) ==
  IF l.include360
  THEN IF E[Head(l.queue)].manager_id # NoManager
       THEN [l EXCEPT !.pc = "checkManager"]
       ELSE AfterManager(l, E)
  ELSE NextEmployee(l)

PeerLoop(l, E) ==
  IF l.selectedPeers = <<>> THEN AfterPeers(l, E)
  ELSE [l EXCEPT !.pc = "checkPeer"]

Start(p, cycleId, peersPerEmployee, include360) ==
  /\ ~Running(p)
  /\ hist.runs < MaxRuns
  /\ LET prev == proc[p]
         again == /\ hist.quiet
                  /\ prev.cycleId = cycleId
                  /\ prev.peersPerEmployee = peersPerEmployee
                  /\ prev.include360 = include360
         rerun == IF again /\ prev.pc = "returned" THEN "after_return"
                  ELSE IF again /\ prev.pc = "aborted" THEN "after_abort"
                  ELSE "none"
     IN hist' = [hist EXCEPT
                   !.runs = @ + 1,
                   !.quiet = TRUE,
                   !.rerun = rerun,
                   !.startRequests = feedback_requests,
                   !.expected =
                     IF rerun = "after_abort" THEN hist.expected
                     ELSE assignFeedbackRequests(
                            feedback_requests, collaborations, feedback_cycles,
                            employees, feedback_responses, cycleId,
                            peersPerEmployee, include360, now)]
  /\ SetProc(p, [IdleProc EXCEPT !.pc = "rankAll", !.cycleId = cycleId,
                                 !.peersPerEmployee = peersPerEmployee,
                                 !.include360 = include360])
  /\ UNCHANGED <<employees, timezone, chat_sessions, db, now>>

RankAll(p) ==
  /\ proc[p].pc = "rankAll"
  /\ LET l == [proc[p] EXCEPT !.queue = listEmployees(employees)]
     IN SetProc(p, IF l.queue = <<>> THEN [l EXCEPT !.pc = "getCycle"]
                   ELSE [l EXCEPT !.pc = "rankPeers"])
  /\ UNCHANGED <<employees, timezone, chat_sessions, db, now, hist>>

RankPeers(p) ==
  /\ proc[p].pc = "rankPeers"
  /\ SetProc(p, [proc[p] EXCEPT
                   !.rankings = rankPeers(collaborations, Head(proc[p].queue), now),
                   !.pc = "saveDelete"])
  /\ UNCHANGED <<employees, timezone, chat_sessions, db, now, hist>>

SaveDelete(p) ==
  /\ proc[p].pc = "saveDelete"
  /\ peer_rankings' =
       {r \in peer_rankings : r.employee_id # Head(proc[p].queue)}
  /\ SetProc(p, InsertLoop(proc[p]))
  /\ UNCHANGED <<employees, timezone, chat_sessions, collaborations, feedback_cycles, feedback_requests,
                 feedback_responses, now, hist>>

\* UNIQUE(employee_id, peer_id) rejects a second row for the pair
SaveInsert(p) ==
  /\ proc[p].pc = "saveInsert"
  /\ LET row == Head(proc[p].rankings)
     IN IF \E r \in peer_rankings : /\ r.employee_id = row.employee_id
                                    /\ r.peer_id = row.peer_id
        THEN /\ SetProc(p, Throw(proc[p], "SQLITE_CONSTRAINT"))
             /\ UNCHANGED peer_rankings
        ELSE /\ peer_rankings' = peer_rankings \cup {row}
             /\ SetProc(p, InsertLoop([proc[p] EXCEPT
                                         !.rankings = Tail(proc[p].rankings)]))
  /\ UNCHANGED <<employees, timezone, chat_sessions, collaborations, feedback_cycles, feedback_requests,
                 feedback_responses, now, hist>>

GetCycle(p) ==
  /\ proc[p].pc = "getCycle"
  /\ LET cycle == getCycle(feedback_cycles, proc[p].cycleId)
     IN SetProc(p, IF cycle = NullCycle
                   THEN Throw(proc[p], "Cycle not found")
                   ELSE [proc[p] EXCEPT !.due_date = cycle.end_date,
                                        !.pc = "listEmployees"])
  /\ UNCHANGED <<employees, timezone, chat_sessions, db, now, hist>>

ListEmployees(p) ==
  /\ proc[p].pc = "listEmployees"
  /\ LET l == [proc[p] EXCEPT !.queue = listEmployees(employees)]
     IN SetProc(p, IF l.queue = <<>> THEN [l EXCEPT !.pc = "returned"]
                   ELSE [l EXCEPT !.pc = "getRankedPeers"])
  /\ UNCHANGED <<employees, timezone, chat_sessions, db, now, hist>>

GetRankedPeers(p) ==
  /\ proc[p].pc = "getRankedPeers"
  /\ SetProc(p, [proc[p] EXCEPT
                   !.rankedPeers =
                     getRankedPeers(peer_rankings, employees, Head(proc[p].queue),
                                    proc[p].peersPerEmployee + RankBuffer),
                   !.pc = "filterRecentFeedback"])
  /\ UNCHANGED <<employees, timezone, chat_sessions, db, now, hist>>

FilterRecentFeedback(p) ==
  /\ proc[p].pc = "filterRecentFeedback"
  /\ LET availablePeers ==
           filterRecentFeedback(proc[p].rankedPeers, Head(proc[p].queue),
                                feedback_responses, now)
         selected == Slice(availablePeers, proc[p].peersPerEmployee)
     IN SetProc(p, PeerLoop([proc[p] EXCEPT
                               !.rankedPeers = <<>>,
                               !.selectedPeers =
                                 [i \in 1..Len(selected) |-> selected[i].peer_id]],
                            employees))
  /\ UNCHANGED <<employees, timezone, chat_sessions, db, now, hist>>

Create(p, providerId, type) ==
  LET l == proc[p]
      row == createFeedbackRequest(feedback_requests, Head(l.queue), providerId,
                                   l.cycleId, type, l.due_date, now)
  IN /\ feedback_requests' = feedback_requests \cup {row}
     /\ UNCHANGED <<employees, timezone, chat_sessions, collaborations, peer_rankings, feedback_cycles,
                    feedback_responses, now, hist>>

Pushed(l, FR, providerId, type, t) ==
  [l EXCEPT !.assignments =
     Append(@, createFeedbackRequest(FR, Head(l.queue), providerId, l.cycleId,
                                     type, l.due_date, t))]

CheckPeer(p) ==
  /\ proc[p].pc = "checkPeer"
  /\ LET l == proc[p]
         exists == checkExistingAssignment(feedback_requests, Head(l.queue),
                                           Head(l.selectedPeers), l.cycleId)
     IN SetProc(p, IF exists
                   THEN PeerLoop([l EXCEPT !.selectedPeers = Tail(@)], employees)
                   ELSE [l EXCEPT !.pc = "createPeer"])
  /\ UNCHANGED <<employees, timezone, chat_sessions, db, now, hist>>

CreatePeer(p) ==
  /\ proc[p].pc = "createPeer"
  /\ Create(p, Head(proc[p].selectedPeers), "peer")
  /\ SetProc(p, PeerLoop(
       [Pushed(proc[p], feedback_requests, Head(proc[p].selectedPeers), "peer", now)
          EXCEPT !.selectedPeers = Tail(@)], employees))

CheckManager(p) ==
  /\ proc[p].pc = "checkManager"
  /\ LET l == proc[p]
         managerExists ==
           checkExistingAssignment(feedback_requests, Head(l.queue),
                                   employees[Head(l.queue)].manager_id, l.cycleId)
     IN SetProc(p, IF managerExists THEN AfterManager(l, employees)
                   ELSE [l EXCEPT !.pc = "createManager"])
  /\ UNCHANGED <<employees, timezone, chat_sessions, db, now, hist>>

CreateManager(p) ==
  /\ proc[p].pc = "createManager"
  /\ Create(p, employees[Head(proc[p].queue)].manager_id, "manager")
  /\ SetProc(p, AfterManager(
       Pushed(proc[p], feedback_requests,
              employees[Head(proc[p].queue)].manager_id, "manager", now),
       employees))

ListReports(p) ==
  /\ proc[p].pc = "listReports"
  /\ SetProc(p, ReportLoop([proc[p] EXCEPT
                              !.reports = listReports(employees, Head(proc[p].queue))]))
  /\ UNCHANGED <<employees, timezone, chat_sessions, db, now, hist>>

CheckReport(p) ==
  /\ proc[p].pc = "checkReport"
  /\ LET l == proc[p]
         reportExists ==
           checkExistingAssignment(feedback_requests, Head(l.queue),
                                   Head(l.reports), l.cycleId)
     IN SetProc(p, IF reportExists
                   THEN ReportLoop([l EXCEPT !.reports = Tail(@)])
                   ELSE [l EXCEPT !.pc = "createReport"])
  /\ UNCHANGED <<employees, timezone, chat_sessions, db, now, hist>>

CreateReport(p) ==
  /\ proc[p].pc = "createReport"
  /\ Create(p, Head(proc[p].reports), "upward")
  /\ SetProc(p, ReportLoop(
       [Pushed(proc[p], feedback_requests, Head(proc[p].reports), "upward", now)
          EXCEPT !.reports = Tail(@)]))

\* a storage call of the invocation rejects: nothing catches it
StorageFault(p) ==
  /\ Running(p)
  /\ hist.faults < MaxFaults
  /\ SetProc(p, Throw(proc[p], "storage"))
  /\ hist' = [hist EXCEPT !.faults = @ + 1]
  /\ UNCHANGED <<employees, timezone, chat_sessions, db, now>>

\* the caller goes away between two storage calls (process restart)
Abort(p) ==
  /\ Running(p)
  /\ hist.faults < MaxFaults
  /\ SetProc(p, [proc[p] EXCEPT !.failedAt = proc[p].pc, !.pc = "aborted"])
  /\ hist' = [hist EXCEPT !.faults = @ + 1]
  /\ UNCHANGED <<employees, timezone, chat_sessions, db, now>>

Step(p) ==
  \/ RankAll(p)
  \/ RankPeers(p)
  \/ SaveDelete(p)
  \/ SaveInsert(p)
  \/ GetCycle(p)
  \/ ListEmployees(p)
  \/ GetRankedPeers(p)
  \/ FilterRecentFeedback(p)
  \/ CheckPeer(p)
  \/ CreatePeer(p)
  \/ CheckManager(p)
  \/ CreateManager(p)
  \/ ListReports(p)
  \/ CheckReport(p)
  \/ CreateReport(p)

CycleInputs == {c.id : c \in feedback_cycles} \cup {MissingCycle}

Invoke(p) ==
  \E cycleId \in CycleInputs, peersPerEmployee \in PeersInputs,
     include360 \in BOOLEAN :
       Start(p, cycleId, peersPerEmployee, include360)

Environment ==
  \/ \E pair \in InteractionPairs, type \in InteractionInputs,
        count \in CountInputs, minutes \in MinuteInputs :
          RecordInteraction(pair[1], pair[2], type, count, minutes)
  \/ \E d \in ClockJumps : AdvanceClock(d)
  \/ CreateCycle
  \/ \E r \in feedback_requests : SubmitResponse(r)

\* the rows of a set of requests in insertion order
RECURSIVE OrderById(_)
OrderById(R) ==
  IF R = {} THEN <<>>
  ELSE LET first == CHOOSE r \in R : \A q \in R : r.id <= q.id
       IN <<first>> \o OrderById(R \ {first})

\* one whole invocation that nothing interleaves with: rankAllPeers, then
\* 'Cycle not found' or the employee loop and the list of created requests
AssignFeedbackRequests(p, cycleId, peersPerEmployee, include360) ==
  /\ NoneRunning
  /\ Start(p, cycleId, peersPerEmployee, include360)!2
  /\ Start(p, cycleId, peersPerEmployee, include360)!3
  /\ LET after == assignFeedbackRequests(
                    feedback_requests, collaborations, feedback_cycles,
                    employees, feedback_responses, cycleId, peersPerEmployee,
                    include360, now)
         called == [IdleProc EXCEPT !.cycleId = cycleId,
                                    !.peersPerEmployee = peersPerEmployee,
                                    !.include360 = include360]
     IN /\ peer_rankings' = rankAllPeers(collaborations, employees, now)
        /\ feedback_requests' = after
        /\ SetProc(p,
             IF getCycle(feedback_cycles, cycleId) = NullCycle
             THEN Throw([called EXCEPT !.pc = "getCycle"], "Cycle not found")
             ELSE [called EXCEPT
                     !.pc = "returned",
                     !.due_date = getCycle(feedback_cycles, cycleId).end_date,
                     !.assignments = OrderById(after \ feedback_requests)])
  /\ UNCHANGED <<employees, timezone, chat_sessions, collaborations, feedback_cycles,
                 feedback_responses, now>>

\* one caller at a time: invocations never overlap
Next ==
  \/ Environment
  \/ \E cycleId \in CycleInputs, peersPerEmployee \in PeersInputs,
        include360 \in BOOLEAN :
          AssignFeedbackRequests(1, cycleId, peersPerEmployee, include360)

Spec == Init /\ [][Next]_vars

\* --------------------------------------- one invocation, await by await
\* a ledger two recordInteraction calls leave, and a cycle created at once
SeedLedger ==
  recordInteraction(
    recordInteraction({}, 2, 1, "chat", 1, 0, Now0), 2, 3, "chat", 1, 0, Now0)

SeedCycle ==
  [id |-> NewCycleId(Now0), status |-> "active", end_date |-> Now0 + CycleLength]

InitSteps ==
  /\ employees \in {OrgStar, OrgChain}
  /\ chat_sessions = {}
  /\ timezone = 0
  /\ collaborations = SeedLedger
  /\ peer_rankings = {}
  /\ feedback_cycles = {SeedCycle}
  /\ feedback_requests = {}
  /\ feedback_responses = {}
  /\ now = Now0
  /\ proc = [p \in Procs |-> IdleProc]
  /\ hist = [runs |-> 0, interactions |-> 2, advances |-> 0, faults |-> 0,
             quiet |-> FALSE, rerun |-> "none", startRequests |-> {},
             expected |-> {}, samples |-> 0, last |-> NoRanking,
             prev |-> NoRanking, closes |-> 0, passes |-> 0]

\* one caller; a storage call may reject and the caller may be stopped
NextSteps ==
  \/ Invoke(1)
  \/ Step(1)
  \/ StorageFault(1)
  \/ Abort(1)

SpecSteps == InitSteps /\ [][NextSteps]_vars

\* ------------------------------------------------ two overlapping callers
InitConc ==
  /\ InitSteps
  /\ employees = OrgStar
  /\ chat_sessions = {}

\* a call for an existing cycle; a second caller retries the same call
Retry(p) ==
  \E cycleId \in {c.id : c \in feedback_cycles},
     peersPerEmployee \in PeersInputs, include360 \in BOOLEAN :
       /\ \A q \in Procs \ {p} :
            proc[q].pc # "idle" =>
              /\ proc[q].cycleId = cycleId
              /\ proc[q].peersPerEmployee = peersPerEmployee
              /\ proc[q].include360 = include360
       /\ Start(p, cycleId, peersPerEmployee, include360)

NextConc == \E p \in Procs : Retry(p) \/ Step(p)

SpecConc == InitConc /\ [][NextConc]_vars

\* ------------------------------------------- the ledger and the ranker
\* foreign keys are not enforced: an id without an employees row is accepted
Outsider == NumEmployees + 1

LedgerPairs == {<<1, 2>>, <<2, 2>>, <<1, Outsider>>}

LedgerInputs ==
  {[type |-> "chat", count |-> 10, minutes |-> 0],
   [type |-> "meeting", count |-> 2, minutes |-> 60],
   [type |-> "call", count |-> 10, minutes |-> 0]}

RankTargets == {1, 2, Outsider}

\* the server's zone: UTC, UTC-12
TimezoneOffsets == {0, TicksPerDay \div 2}

ElapseInputs == {5 * TicksPerDay, 95 * TicksPerDay}

SampleDraws ==
  {[chat |-> 5, meeting |-> 0, task |-> 0, file |-> 0],
   [chat |-> 5, meeting |-> 30, task |-> 1, file |-> 1]}

RankOps == hist.interactions + hist.advances + hist.runs + hist.samples

InitRank ==
  /\ employees = OrgStar
  /\ chat_sessions = {}
  /\ timezone \in TimezoneOffsets
  /\ collaborations = {}
  /\ peer_rankings = {}
  /\ feedback_cycles = {}
  /\ feedback_requests = {}
  /\ feedback_responses = {}
  /\ now = Now0
  /\ proc = [p \in Procs |-> IdleProc]
  /\ hist = [runs |-> 0, interactions |-> 0, advances |-> 0, faults |-> 0,
             quiet |-> FALSE, rerun |-> "none", startRequests |-> {},
             expected |-> {}, samples |-> 0, last |-> NoRanking,
             prev |-> NoRanking, closes |-> 0, passes |-> 0]

Elapse(d) ==
  /\ RankOps < MaxRankOps
  /\ hist.advances < MaxElapses
  /\ now' = now + d
  /\ hist' = [hist EXCEPT !.advances = @ + 1]
  /\ UNCHANGED <<employees, timezone, chat_sessions, db, proc>>

\* one whole rankPeers(e) call: query, score, sort, save, return
RankPeersCall(e) ==
  /\ RankOps < MaxRankOps
  /\ hist.runs < MaxRankCalls
  /\ LET rankings == rankPeers(collaborations, e, now)
     IN /\ peer_rankings' = saveRankings(peer_rankings, e, rankings)
        /\ SetProc(1, [IdleProc EXCEPT !.pc = "ranked", !.queue = <<e>>,
                                       !.rankings = rankings])
        /\ hist' = [hist EXCEPT
                      !.runs = @ + 1,
                      !.prev = hist.last,
                      !.last = [employee |-> e, at |-> now,
                                ledger |-> {c \in collaborations :
                                              c.employee_id = e},
                                rankings |-> rankings]]
  /\ UNCHANGED <<employees, timezone, chat_sessions, collaborations, feedback_cycles,
                 feedback_requests, feedback_responses, now>>

\* one whole rankAllPeers() call
RankAllPeersCall ==
  /\ RankOps < MaxRankOps
  /\ hist.runs < MaxRankCalls
  /\ peer_rankings' =
       {r \in peer_rankings : r.employee_id \notin DOMAIN employees}
         \cup rankAllPeers(collaborations, employees, now)
  /\ SetProc(1, [IdleProc EXCEPT !.pc = "rankedAll"])
  /\ hist' = [hist EXCEPT !.runs = @ + 1]
  /\ UNCHANGED <<employees, timezone, chat_sessions, collaborations, feedback_cycles,
                 feedback_requests, feedback_responses, now>>

\* one whole generateSampleData() call
GenerateSampleData(draws) ==
  /\ RankOps < MaxRankOps
  /\ hist.samples < MaxSamples
  /\ collaborations' = generateSampleData(collaborations,
                                          listEmployees(employees), employees,
                                          draws, now)
  /\ SetProc(1, [IdleProc EXCEPT !.pc = "sampled"])
  /\ hist' = [hist EXCEPT !.samples = @ + 1]
  /\ UNCHANGED <<employees, timezone, chat_sessions, peer_rankings, feedback_cycles,
                 feedback_requests, feedback_responses, now>>

NextRank ==
  \/ \E pair \in LedgerPairs, input \in LedgerInputs :
       /\ RankOps < MaxRankOps
       /\ RecordInteraction(pair[1], pair[2], input.type, input.count,
                            input.minutes)
  \/ \E d \in ElapseInputs : Elapse(d)
  \/ \E e \in RankTargets : RankPeersCall(e)
  \/ RankAllPeersCall
  \/ \E draw \in SampleDraws :
       GenerateSampleData(
         [k \in 1..Len(samplePairs(listEmployees(employees), 1)) |-> draw])

SpecRank == InitRank /\ [][NextRank]_vars

\* ------------------------------------- recordInteraction, run by run
LedgerPcs == {"recordForward", "recordMirror"}

RecordStart(p, e, peer, input) ==
  /\ proc[p].pc \notin LedgerPcs
  /\ hist.interactions < MaxInteractions
  /\ SetProc(p, [IdleProc EXCEPT
                   !.pc = "recordForward",
                   !.call = [employeeId |-> e, peerId |-> peer,
                             type |-> input.type, count |-> input.count,
                             minutes |-> input.minutes,
                             before |-> collaborations]])
  /\ hist' = [hist EXCEPT !.interactions = @ + 1]
  /\ UNCHANGED <<employees, timezone, chat_sessions, db, now>>

\* await run(sql, [employeeId, peerId, ...])
RecordForward(p) ==
  /\ proc[p].pc = "recordForward"
  /\ LET c == proc[p].call
     IN collaborations' = Upsert(collaborations, c.employeeId, c.peerId,
                                 c.type, c.count, c.minutes, now)
  /\ SetProc(p, [proc[p] EXCEPT !.pc = "recordMirror"])
  /\ UNCHANGED <<employees, timezone, chat_sessions, peer_rankings, feedback_cycles,
                 feedback_requests, feedback_responses, now, hist>>

\* await run(sql, [peerId, employeeId, ...])
RecordMirror(p) ==
  /\ proc[p].pc = "recordMirror"
  /\ LET c == proc[p].call
     IN collaborations' = Upsert(collaborations, c.peerId, c.employeeId,
                                 c.type, c.count, c.minutes, now)
  /\ SetProc(p, [proc[p] EXCEPT !.pc = "recorded"])
  /\ UNCHANGED <<employees, timezone, chat_sessions, peer_rankings, feedback_cycles,
                 feedback_requests, feedback_responses, now, hist>>

\* the run the call is waiting for rejects: the call rejects with it
RecordFault(p) ==
  /\ proc[p].pc \in LedgerPcs
  /\ hist.faults < MaxFaults
  /\ SetProc(p, Throw(proc[p], "storage"))
  /\ hist' = [hist EXCEPT !.faults = @ + 1]
  /\ UNCHANGED <<employees, timezone, chat_sessions, db, now>>

NextLedger ==
  \/ \E pair \in LedgerPairs, input \in LedgerInputs :
       RecordStart(1, pair[1], pair[2], input)
  \/ RecordForward(1)
  \/ RecordMirror(1)
  \/ RecordFault(1)

SpecLedger == Init /\ [][NextLedger]_vars

\* ------------------------------------------------------- getCycleStats
\* a cycle id other than the seeded cycle's
OtherCycle == NewCycleId(Now0 + 1)

StatusAt(i, completed, pending) ==
  IF i <= completed THEN "completed"
  ELSE IF i <= completed + pending THEN "pending"
  ELSE "overdue"

\* a request table: the seeded cycle holds completed + pending + overdue
\* requests, and another cycle holds one completed request or none
StatsTable(completed, pending, overdue, other) ==
  {[id |-> i, requester_id |-> 1 + (i % NumEmployees),
    provider_id |-> 1 + ((i + 1) % NumEmployees), cycle_id |-> SeedCycle.id,
    request_type |-> "peer", status |-> StatusAt(i, completed, pending),
    assigned_at |-> SqlDatetime(Now0), due_date |-> SeedCycle.end_date]
     : i \in 1..(completed + pending + overdue)}
    \cup (IF other
          THEN {[id |-> completed + pending + overdue + 1, requester_id |-> 1,
                 provider_id |-> 2, cycle_id |-> OtherCycle,
                 request_type |-> "peer", status |-> "completed",
                 assigned_at |-> SqlDatetime(Now0),
                 due_date |-> SeedCycle.end_date]}
          ELSE {})

InitStats ==
  /\ employees = OrgStar
  /\ chat_sessions = {}
  /\ timezone = 0
  /\ collaborations = {}
  /\ peer_rankings = {}
  /\ feedback_cycles = {SeedCycle}
  /\ \E completed \in 0..MaxStatRows, pending \in 0..MaxStatRows,
        overdue \in 0..MaxStatRows, other \in BOOLEAN :
       /\ completed + pending + overdue <= MaxStatRows
       /\ feedback_requests = StatsTable(completed, pending, overdue, other)
  /\ feedback_responses = {}
  /\ now = Now0
  /\ proc = [p \in Procs |-> IdleProc]
  /\ hist = [runs |-> 0, interactions |-> 0, advances |-> 0, faults |-> 0,
             quiet |-> FALSE, rerun |-> "none", startRequests |-> {},
             expected |-> {}, samples |-> 0, last |-> NoRanking,
             prev |-> NoRanking, closes |-> 0, passes |-> 0]

\* one getCycleStats(cycleId) call: a single SELECT
GetCycleStats(p, cycleId) ==
  /\ SetProc(p, [IdleProc EXCEPT
                   !.pc = "stats", !.cycleId = cycleId,
                   !.stats = getCycleStats(feedback_requests, cycleId)])
  /\ UNCHANGED <<employees, timezone, chat_sessions, db, now, hist>>

NextStats ==
  \E cycleId \in {SeedCycle.id, OtherCycle, MissingCycle} :
    GetCycleStats(1, cycleId)

SpecStats == InitStats /\ [][NextStats]_vars

\* ------------------------------------- cycles, reminders, auto-closing
CycleElapseInputs == {9, 2 * 9}

\* calls made so far by the administrator and the scheduler
CycleOps ==
  hist.runs + hist.advances + hist.closes + hist.passes
    + Cardinality(feedback_cycles)

InitCycles ==
  /\ employees = OrgStar
  /\ chat_sessions = {}
  /\ timezone = 0
  /\ collaborations = SeedLedger
  /\ peer_rankings = {}
  /\ feedback_cycles = {}
  /\ feedback_requests = {}
  /\ feedback_responses = {}
  /\ now = Now0
  /\ proc = [p \in Procs |-> IdleProc]
  /\ hist = [runs |-> 0, interactions |-> 0, advances |-> 0, faults |-> 0,
             quiet |-> FALSE, rerun |-> "none", startRequests |-> {},
             expected |-> {}, samples |-> 0, last |-> NoRanking,
             prev |-> NoRanking, closes |-> 0, passes |-> 0]

\* one createCycle call: the id is taken from the clock, and the INSERT is
\* rejected when the primary key is already there
CreateCycleCall(p) ==
  /\ NoneRunning
  /\ CycleOps < MaxCycleOps
  /\ Cardinality(feedback_cycles) < MaxCycles
  /\ IF \E c \in feedback_cycles : c.id = NewCycleId(now)
     THEN /\ SetProc(p, Throw([IdleProc EXCEPT !.pc = "createCycle"],
                              "SQLITE_CONSTRAINT"))
          /\ UNCHANGED feedback_cycles
     ELSE /\ feedback_cycles' =
               createCycle(feedback_cycles, now, now + CycleLength)
          /\ SetProc(p, [IdleProc EXCEPT !.pc = "created",
                                         !.cycleId = NewCycleId(now)])
  /\ hist' = [hist EXCEPT !.quiet = FALSE]
  /\ UNCHANGED <<employees, timezone, chat_sessions, collaborations, peer_rankings,
                 feedback_requests, feedback_responses, now>>

\* one whole autoCloseCycles pass; queue lists the cycles it closed
AutoCloseCycles(p) ==
  /\ proc[p].pc # "remind"
  /\ hist.closes < MaxCloses
  /\ CycleOps < MaxCycleOps
  /\ feedback_cycles' = autoCloseCycles(feedback_cycles, feedback_requests, now)
  /\ SetProc(p, [IdleProc EXCEPT
                   !.pc = "autoClosed",
                   !.queue = SortedIds({c.id : c \in
                               {x \in endedCycles(feedback_cycles, now) :
                                  closeCondition(feedback_requests, x, now)}})])
  /\ hist' = [hist EXCEPT !.closes = @ + 1, !.quiet = FALSE]
  /\ UNCHANGED <<employees, timezone, chat_sessions, collaborations, peer_rankings,
                 feedback_requests, feedback_responses, now>>

AfterReminder(l) ==
  IF l.queue = <<>> THEN [l EXCEPT !.pc = "reminded"] ELSE l

\* checkAndSendReminders: the SELECT of the pending requests, and new Date()
ReminderRead(p) ==
  /\ proc[p].pc # "remind"
  /\ hist.passes < MaxPasses
  /\ CycleOps < MaxCycleOps
  /\ SetProc(p, AfterReminder(
       [IdleProc EXCEPT
          !.pc = "remind",
          !.readAt = now,
          !.queue = OrderById({r \in feedback_requests :
                                 /\ r.status = "pending"
                                 /\ r.requester_id \in DOMAIN employees
                                 /\ r.provider_id \in DOMAIN employees})]))
  /\ hist' = [hist EXCEPT !.passes = @ + 1, !.quiet = FALSE]
  /\ UNCHANGED <<employees, timezone, chat_sessions, db, now>>

\* one iteration of the loop over the requests that were read
ReminderStep(p) ==
  /\ proc[p].pc = "remind"
  /\ LET request == Head(proc[p].queue)
     IN feedback_requests' =
          IF overdueNow(request, proc[p].readAt)
          THEN {IF r.id = request.id THEN [r EXCEPT !.status = "overdue"]
                ELSE r : r \in feedback_requests}
          ELSE feedback_requests
  /\ SetProc(p, AfterReminder([proc[p] EXCEPT !.queue = Tail(@)]))
  /\ UNCHANGED <<employees, timezone, chat_sessions, collaborations, peer_rankings,
                 feedback_cycles, feedback_responses, now, hist>>

NextCycles ==
  \/ CreateCycleCall(1)
  \/ \E d \in CycleElapseInputs : CycleOps < MaxCycleOps /\ Elapse(d)
  \/ \E cycleId \in {c.id : c \in feedback_cycles}, include360 \in BOOLEAN :
       /\ CycleOps < MaxCycleOps
       /\ AssignFeedbackRequests(1, cycleId, QuotaPeers, include360)
  \/ \E r \in feedback_requests : SubmitResponse(r)
  \/ AutoCloseCycles(2)
  \/ ReminderRead(2)
  \/ ReminderStep(2)

SpecCycles == InitCycles /\ [][NextCycles]_vars

\* ------------------------------------------------------------ chat routes
InitChat ==
  /\ employees = OrgStar
  /\ chat_sessions = {}
  /\ timezone = 0
  /\ collaborations = SeedLedger
  /\ peer_rankings = {}
  /\ feedback_cycles = {SeedCycle}
  /\ feedback_requests = {}
  /\ feedback_responses = {}
  /\ now = Now0
  /\ proc = [p \in Procs |-> IdleProc]
  /\ hist = [runs |-> 0, interactions |-> 0, advances |-> 0, faults |-> 0,
             quiet |-> FALSE, rerun |-> "none", startRequests |-> {},
             expected |-> {}, samples |-> 0, last |-> NoRanking,
             prev |-> NoRanking, closes |-> 0, passes |-> 0]

\* POST /sessions/init: the session of the employee's next pending request is
\* created unless an open one exists
StartSession(employeeId, request) ==
  /\ Cardinality(chat_sessions) < MaxSessions
  /\ request \in nextRequests(feedback_requests, feedback_cycles, employees,
                              employeeId)
  /\ openSessions(chat_sessions, employeeId, request.id) = {}
  /\ \A s \in chat_sessions : s.id # NewSessionId(now, employeeId)
  /\ chat_sessions' =
       chat_sessions \cup {newSession(now, employeeId, request.id)}
  /\ UNCHANGED <<employees, timezone, db, now, proc, hist>>

\* POST /sessions/:sessionId/message, the whole handler
Message(session, action, questionId) ==
  /\ session \in chat_sessions
  /\ IF submits(session, action)
     THEN /\ Cardinality(feedback_responses) < MaxChatResponses
          /\ feedback_responses' = feedback_responses \cup
               {[id |-> Cardinality(feedback_responses) + 1,
                 request_id |-> session.request_id,
                 requester_id |->
                   (CHOOSE r \in feedback_requests :
                      r.id = session.request_id).requester_id,
                 provider_id |-> session.employee_id,
                 submitted_at |-> SqlDatetime(now)]}
          /\ feedback_requests' =
               updateRequestStatus(feedback_requests, session.request_id,
                                   "completed")
          /\ hist' = [hist EXCEPT !.quiet = FALSE]
     ELSE UNCHANGED <<feedback_responses, feedback_requests, hist>>
  /\ chat_sessions' = (chat_sessions \ {session})
                        \cup {handleMessage(session, action, questionId)}
  /\ UNCHANGED <<employees, timezone, collaborations, peer_rankings,
                 feedback_cycles, now, proc>>

\* POST /sessions/:sessionId/cancel
Cancel(session) ==
  /\ session \in chat_sessions
  /\ chat_sessions' = cancelSession(chat_sessions, session.id)
  /\ UNCHANGED <<employees, timezone, db, now, proc, hist>>

NextChat ==
  \/ AssignFeedbackRequests(1, SeedCycle.id, QuotaPeers, FALSE)
  \/ \E e \in EmployeeIds, request \in feedback_requests :
       StartSession(e, request)
  \/ \E session \in chat_sessions, action \in ChatActions,
        questionId \in {NoAnswer} \cup (1..NumQuestions) :
       Message(session, action, questionId)
  \/ \E session \in chat_sessions : Cancel(session)

SpecChat == InitChat /\ [][NextChat]_vars

\* ------------------------------------------------------------ properties
Tuple(r) == <<r.requester_id, r.provider_id, r.cycle_id>>

Ids(R) == {r.id : r \in R}

Returned(p) == proc[p].pc = "returned"

CreatedBy(p) == Range(proc[p].assignments)

\* C1: after any sequence of non-overlapping assignFeedbackRequests calls,
\* with interactions and responses recorded in between, feedback_requests
\* holds no two rows with the same (requester_id, provider_id, cycle_id).
C1_NoDuplicateTuple ==
  \A r1 \in feedback_requests, r2 \in feedback_requests :
    Tuple(r1) = Tuple(r2) => r1 = r2

\* a later call on a cycle that already held requests, after a response,
\* passed over existing tuples and still created new ones
C1_Witness ==
  /\ Returned(1)
  /\ feedback_responses # {}
  /\ proc[1].assignments # <<>>
  /\ \E r \in hist.startRequests : r.cycle_id = proc[1].cycleId

\* C2: a second call made right after a completed call, for the same cycle,
\* peersPerEmployee and include360, creates and returns no request and leaves
\* the request table and getCycleStats of the cycle as they were.
C2_SecondCallCreatesNothing ==
  (Returned(1) /\ hist.quiet /\ hist.rerun = "after_return") =>
    /\ proc[1].assignments = <<>>
    /\ feedback_requests = hist.startRequests
    /\ getCycleStats(feedback_requests, proc[1].cycleId)
         = getCycleStats(hist.startRequests, proc[1].cycleId)

C2_Witness ==
  /\ Returned(1)
  /\ hist.quiet
  /\ hist.rerun = "after_return"
  /\ Cardinality({r \in feedback_requests : r.cycle_id = proc[1].cycleId}) >= 2

\* C3: no request in feedback_requests has requester_id = provider_id.
C3_NoSelfAssignment ==
  \A r \in feedback_requests : r.requester_id # r.provider_id

\* C7: a call whose cycleId names no cycle ends by throwing 'Cycle not
\* found' and adds no row to feedback_requests.
C7_MissingCycleIsFatal ==
  \A p \in Procs :
    (proc[p].pc # "idle"
       /\ \A c \in feedback_cycles : c.id # proc[p].cycleId) =>
      /\ proc[p].pc = "threw"
      /\ proc[p].error = "Cycle not found"
      /\ proc[p].assignments = <<>>
      /\ Ids(feedback_requests) = Ids(hist.startRequests)

\* the call failed although requests could have been made: a cycle and
\* ranked peers exist
C7_Witness ==
  /\ proc[1].pc = "threw"
  /\ proc[1].error = "Cycle not found"
  /\ feedback_cycles # {}
  /\ peer_rankings # {}

PeerIds(rows) == [i \in 1..Len(rows) |-> rows[i].peer_id]

\* the ranked peers of e that the recency filter of the call let through
Survivors(e, peersPerEmployee) ==
  PeerIds(filterRecentFeedback(
            getRankedPeers(peer_rankings, employees, e,
                           peersPerEmployee + RankBuffer),
            e, feedback_responses, now))

\* the providers of the peer-type requests the call created for e, in order
PeerProvidersCreated(p, e) ==
  LET rows == SelectSeq(proc[p].assignments,
                        LAMBDA r : r.requester_id = e /\ r.request_type = "peer")
  IN [i \in 1..Len(rows) |-> rows[i].provider_id]

FreshCycle(p) ==
  ~\E r \in hist.startRequests : r.cycle_id = proc[p].cycleId

\* C8: on a cycle without requests the call creates, for every employee,
\* exactly min(peersPerEmployee, k) peer-type requests, k being the number of
\* the employee's top peersPerEmployee + 10 ranked peers that survive the
\* recency filter, and their providers are the first survivors in rank order.
C8_PeerRequestsAreTopSurvivors ==
  (Returned(1) /\ hist.quiet /\ FreshCycle(1)) =>
    \A e \in DOMAIN employees :
      LET k == Len(Survivors(e, proc[1].peersPerEmployee))
          n == IF proc[1].peersPerEmployee <= k
               THEN proc[1].peersPerEmployee ELSE k
      IN /\ Len(PeerProvidersCreated(1, e)) = n
         /\ PeerProvidersCreated(1, e)
              = SubSeq(Survivors(e, proc[1].peersPerEmployee), 1, n)

\* one employee had more survivors than peersPerEmployee, another fewer, and
\* the recency filter removed a ranked peer
C8_Witness ==
  /\ Returned(1) /\ hist.quiet /\ FreshCycle(1)
  /\ \E e \in DOMAIN employees :
       Len(Survivors(e, proc[1].peersPerEmployee)) > proc[1].peersPerEmployee
  /\ \E e \in DOMAIN employees :
       /\ Len(Survivors(e, proc[1].peersPerEmployee)) < proc[1].peersPerEmployee
       /\ Len(Survivors(e, proc[1].peersPerEmployee))
            < Cardinality({r \in peer_rankings : r.employee_id = e})

\* C9: no peer-type request was assigned while its provider had submitted a
\* response for its requester within the 30 days before the assignment.
C9_NoRecentProviderAssigned ==
  \A r \in feedback_requests :
    r.request_type = "peer" =>
      ~\E x \in feedback_responses :
         /\ x.requester_id = r.requester_id
         /\ x.provider_id = r.provider_id
         /\ Instant(x.submitted_at) < Instant(r.assigned_at)
         /\ Instant(x.submitted_at) > Instant(r.assigned_at) - RecencyTicks

ManagerTuple(r, e, cycleId) ==
  /\ r.requester_id = e
  /\ r.provider_id = employees[e].manager_id
  /\ r.cycle_id = cycleId

\* C10: after a call with include360 every employee with a manager has a
\* request employee -> manager in the cycle, and the call created it as a
\* manager-type request unless the tuple was there before or the manager was
\* one of the employee's selected peers; without include360 the call creates
\* no manager-type request.
C10_ManagerRequests ==
  Returned(1) =>
    IF proc[1].include360
    THEN \A e \in DOMAIN employees :
           employees[e].manager_id # NoManager =>
             /\ \E r \in feedback_requests : ManagerTuple(r, e, proc[1].cycleId)
             /\ \/ \E r \in hist.startRequests : ManagerTuple(r, e, proc[1].cycleId)
                \/ \E r \in CreatedBy(1) :
                     /\ ManagerTuple(r, e, proc[1].cycleId)
                     /\ r.request_type = "peer"
                \/ \E r \in CreatedBy(1) :
                     /\ ManagerTuple(r, e, proc[1].cycleId)
                     /\ r.request_type = "manager"
    ELSE \A r \in CreatedBy(1) : r.request_type # "manager"

\* the manager answered for the employee on this very day, is a ranked peer
\* of the employee, and the call still created the manager-type request
C10_Witness ==
  /\ Returned(1) /\ hist.quiet /\ proc[1].include360
  /\ \E r \in CreatedBy(1), x \in feedback_responses :
       /\ r.request_type = "manager"
       /\ x.requester_id = r.requester_id
       /\ x.provider_id = r.provider_id
       /\ Instant(x.submitted_at) > now - TicksPerDay
       /\ \E k \in peer_rankings :
            k.employee_id = r.requester_id /\ k.peer_id = r.provider_id

\* an invocation that ran to its end left what the uninterrupted run leaves
StepsAgreeWithWhole ==
  (Returned(1) /\ hist.rerun # "after_abort") =>
    feedback_requests = hist.expected

TupleAndType(r) ==
  <<r.requester_id, r.provider_id, r.cycle_id, r.request_type>>

\* C5: when an invocation is stopped after any storage call and the same
\* call is then run to its end, the request table holds the requests one
\* uninterrupted run would have left: none twice, none missing.
C5_RerunAfterAbortCompletes ==
  (Returned(1) /\ hist.rerun = "after_abort") =>
    /\ {TupleAndType(r) : r \in feedback_requests}
         = {TupleAndType(r) : r \in hist.expected}
    /\ Cardinality(feedback_requests) = Cardinality(hist.expected)

\* the stopped invocation had created some of the requests, the rerun the rest
C5_Witness ==
  /\ Returned(1)
  /\ hist.rerun = "after_abort"
  /\ hist.startRequests # {}
  /\ proc[1].assignments # <<>>

\* C6: a storage failure while one employee is processed does not end the
\* batch: the employees after it are still processed.
C6_FailureDoesNotEndBatch ==
  \A p \in Procs :
    ~(/\ proc[p].pc = "threw"
      /\ proc[p].error = "storage"
      /\ proc[p].failedAt \in EmployeeLoopPcs
      /\ Len(proc[p].queue) > 1)

\* C4: however two invocations for one cycle interleave, no two rows of
\* feedback_requests carry the same (requester_id, provider_id, cycle_id).
C4_NoDuplicateUnderOverlap ==
  \A r1 \in feedback_requests, r2 \in feedback_requests :
    r1.id # r2.id => Tuple(r1) # Tuple(r2)

\* ---------------------------------------------------------------- upward
UpwardTuple(r, m, e, cycleId) ==
  /\ r.requester_id = m
  /\ r.provider_id = e
  /\ r.cycle_id = cycleId

\* C11: after a call with include360, for every employee flagged is_manager
\* and every direct report of that employee a request manager -> report is
\* in the cycle, and the call created it as an upward-type request unless
\* the tuple was there before or the report was one of the manager's
\* selected peers, whether or not the report answered recently; without
\* include360 the call creates no upward-type request.
C11_UpwardRequests ==
  Returned(1) =>
    IF proc[1].include360
    THEN \A m \in DOMAIN employees, e \in DOMAIN employees :
           (employees[m].is_manager /\ employees[e].manager_id = m) =>
             /\ \E r \in feedback_requests : UpwardTuple(r, m, e, proc[1].cycleId)
             /\ \/ \E r \in hist.startRequests :
                     UpwardTuple(r, m, e, proc[1].cycleId)
                \/ \E r \in CreatedBy(1) :
                     /\ UpwardTuple(r, m, e, proc[1].cycleId)
                     /\ r.request_type \in {"peer", "upward"}
    ELSE \A r \in CreatedBy(1) : r.request_type # "upward"

\* a report answered for the manager on this very day and the call still
\* created the upward-type request manager -> report
C11_Witness ==
  /\ Returned(1) /\ hist.quiet /\ proc[1].include360
  /\ \E r \in CreatedBy(1), x \in feedback_responses :
       /\ r.request_type = "upward"
       /\ employees[r.requester_id].is_manager
       /\ employees[r.provider_id].manager_id = r.requester_id
       /\ x.requester_id = r.requester_id
       /\ x.provider_id = r.provider_id
       /\ Instant(x.submitted_at) > now - TicksPerDay

\* ---------------------------------------------------------------- ranker
StoredRankings(e) == {r \in peer_rankings : r.employee_id = e}

\* C12: the stored rank_position values of an employee are exactly 1..N,
\* in descending collaboration_score order, and two peers with the same
\* score are in ascending peer id order.
C12_DenseRanksTiesByPeerId ==
  \A e \in {r.employee_id : r \in peer_rankings} :
    /\ {r.rank_position : r \in StoredRankings(e)}
         = 1..Cardinality(StoredRankings(e))
    /\ \A r \in StoredRankings(e), q \in StoredRankings(e) :
         r.rank_position < q.rank_position =>
           \/ r.collaboration_score > q.collaboration_score
           \/ /\ r.collaboration_score = q.collaboration_score
              /\ r.peer_id < q.peer_id

\* rankPeers returned and stored two peers with the same score
C12_Witness ==
  /\ proc[1].pc = "ranked"
  /\ \E r \in StoredRankings(Head(proc[1].queue)),
        q \in StoredRankings(Head(proc[1].queue)) :
       /\ r.peer_id # q.peer_id
       /\ r.collaboration_score = q.collaboration_score
       /\ r.collaboration_score > 0

\* C13: two rankPeers calls for one employee over the same interaction
\* rows return the same ordering and the same scores, also when time
\* passes between them.
C13_SameRowsSameRanking ==
  (/\ hist.prev.employee # 0
   /\ hist.prev.employee = hist.last.employee
   /\ hist.prev.ledger = hist.last.ledger)
    => hist.prev.rankings = hist.last.rankings

FullMultiplier == DecayDays * TicksPerDay

PeerRows(ledger, p) == {c \in ledger : c.peer_id = p}

\* C14: whatever last_interaction reads as against the clock, the recency
\* multiplier applied lies in [0.5, 1.0]: a returned score is at least half
\* and at most the whole of the undecayed score.
C14_MultiplierInRange ==
  \A i \in 1..Len(hist.last.rankings) :
    LET row == hist.last.rankings[i]
        undecayed == SumPoints(PeerRows(hist.last.ledger, row.peer_id))
    IN /\ 2 * row.collaboration_score >= undecayed * FullMultiplier
       /\ row.collaboration_score <= undecayed * FullMultiplier

TypePoints(rows, type, weight) ==
  IF \E c \in rows : c.interaction_type = type
  THEN LET c == CHOOSE x \in rows : x.interaction_type = type
       IN MinutesPerPoint * c.interaction_count * weight + c.total_minutes
  ELSE 0

\* (sum of count * weight + minutes / 10) * max(0.5, 1 - days / 90), days
\* from the latest last_interaction of the peer over all types
ClaimedScore(rows, t) ==
  (TypePoints(rows, "chat", 1) + TypePoints(rows, "meeting", 3)
     + TypePoints(rows, "task", 5) + TypePoints(rows, "file", 2)
     + TypePoints(rows, "call", 1))
    * Max(FullMultiplier \div 2,
          FullMultiplier
            - (t - SetMax({DateParse(c.last_interaction) : c \in rows})))

\* the only interaction with the peer: count of one type, minutes, days ago
OnlyRow(rows, type, count, minutes, days, t) ==
  /\ Cardinality(rows) = 1
  /\ \A c \in rows :
       /\ c.interaction_type = type
       /\ c.interaction_count = count
       /\ c.total_minutes = minutes
       /\ Instant(c.last_interaction) = t - days * TicksPerDay

ChatPeerAt(i) ==
  OnlyRow(PeerRows(hist.last.ledger, hist.last.rankings[i].peer_id),
          "chat", 10, 0, 5, hist.last.at)

MeetingPeerAt(i) ==
  OnlyRow(PeerRows(hist.last.ledger, hist.last.rankings[i].peer_id),
          "meeting", 2, 60, 100, hist.last.at)

\* C15: the score of every peer is the sum over the peer's interaction types
\* of count * weight + minutes / 10 (chat 1, meeting 3, task 5, file 2, any
\* other type 1) times one multiplier max(0.5, 1 - days / 90) taken from the
\* latest last_interaction over all the types; a peer with 10 chats last
\* seen 5 days ago ranks above a peer with 2 meetings of 60 minutes last
\* seen 100 days ago.
C15_ScoreFormula ==
  /\ \A i \in 1..Len(hist.last.rankings) :
       hist.last.rankings[i].collaboration_score
         = ClaimedScore(PeerRows(hist.last.ledger,
                                 hist.last.rankings[i].peer_id),
                        hist.last.at)
  /\ \A i \in 1..Len(hist.last.rankings), j \in 1..Len(hist.last.rankings) :
       (ChatPeerAt(i) /\ MeetingPeerAt(j)) => i < j

\* the two peers of the example were ranked together
C15_Witness ==
  \E i \in 1..Len(hist.last.rankings), j \in 1..Len(hist.last.rankings) :
    ChatPeerAt(i) /\ MeetingPeerAt(j)

\* C17: every peer_rankings row (employee, peer) has a collaborations row
\* for the same (employee, peer).
C17_RankedPeersHaveInteractions ==
  \A r \in peer_rankings :
    \E c \in collaborations :
      c.employee_id = r.employee_id /\ c.peer_id = r.peer_id

\* C18: rankPeers for an employee without interaction rows returns the
\* empty list, raises no error and leaves the employee without stored
\* ranking rows, whatever an earlier ranking stored.
C18_NoRowsNoRanking ==
  (proc[1].pc = "ranked" /\ hist.last.ledger = {}) =>
    /\ proc[1].rankings = <<>>
    /\ proc[1].error = "none"
    /\ StoredRankings(hist.last.employee) = {}

\* the earlier ranking of the same employee had stored rows
C18_Witness ==
  /\ proc[1].pc = "ranked"
  /\ hist.last.ledger = {}
  /\ hist.prev.employee = hist.last.employee
  /\ hist.prev.rankings # <<>>
  /\ StoredRankings(hist.last.employee) = {}

Mirrored(c, d) ==
  /\ d.employee_id = c.peer_id
  /\ d.peer_id = c.employee_id
  /\ d.interaction_type = c.interaction_type

\* C19: the ledger row (A, B, type) exists exactly when (B, A, type) does,
\* there is one row at most per (employee, peer, type), and two mirrored
\* rows hold the same interaction_count and total_minutes.
C19_LedgerSymmetric ==
  /\ \A c \in collaborations :
       \E d \in collaborations :
         /\ Mirrored(c, d)
         /\ d.interaction_count = c.interaction_count
         /\ d.total_minutes = c.total_minutes
  /\ \A c \in collaborations, d \in collaborations :
       (/\ c.employee_id = d.employee_id
        /\ c.peer_id = d.peer_id
        /\ c.interaction_type = d.interaction_type) => c = d

\* a pair of distinct employees recorded twice with the same type
C19_Witness ==
  \E c \in collaborations, d \in collaborations :
    /\ Mirrored(c, d)
    /\ c.employee_id # c.peer_id
    /\ c.interaction_count = 4
    /\ c.total_minutes = 120
    /\ hist.samples = 0

\* C16: while an employee's ranking rows are being replaced, a concurrent
\* getRankedPeers for the employee returns a complete ranking, never an
\* empty or partial one.  Ledger and clock stand still here, so the old
\* and the new complete ranking are the same rows.
C16_ReaderSeesCompleteRanking ==
  \A p \in Procs :
    proc[p].pc = "filterRecentFeedback" =>
      proc[p].rankedPeers
        = getRankedPeers(rankAllPeers(collaborations, employees, now),
                         employees, Head(proc[p].queue),
                         proc[p].peersPerEmployee + RankBuffer)

\* C20: when the write of the mirrored row fails, the increment already
\* applied to the (employee, peer) row is not left in the ledger.
C20_BothRowsOrNeither ==
  \A p \in Procs :
    (proc[p].pc = "threw" /\ proc[p].failedAt = "recordMirror") =>
      collaborations = proc[p].call.before

\* C21: across every operation of the collaboration tracker a ledger row
\* stays in the ledger and its interaction_count and total_minutes never
\* decrease.
C21_LedgerOnlyGrows ==
  [][\A c \in collaborations :
       \E d \in collaborations' :
         /\ d.employee_id = c.employee_id
         /\ d.peer_id = c.peer_id
         /\ d.interaction_type = c.interaction_type
         /\ d.interaction_count >= c.interaction_count
         /\ d.total_minutes >= c.total_minutes]_vars

\* C25: an assignFeedbackRequests invocation, returning or failing with
\* 'Cycle not found', leaves the peer_rankings table as it found it.
C25_RankingsUntouched ==
  [][hist'.runs # hist.runs => peer_rankings' = peer_rankings]_vars

\* C28: when two rankings of one employee interleave, neither fails with a
\* storage error, and once both are through the employee's stored ranks
\* are one row per peer with positions 1..N.
C28_InterleavedRankingsSucceed ==
  /\ \A p \in Procs :
       ~(proc[p].pc = "threw" /\ proc[p].failedAt = "saveInsert")
  /\ (\A p \in Procs : proc[p].pc \notin RankingPcs) =>
       \A e \in {r.employee_id : r \in peer_rankings} :
         /\ {r.rank_position : r \in StoredRankings(e)}
              = 1..Cardinality(StoredRankings(e))
         /\ \A r \in StoredRankings(e), q \in StoredRankings(e) :
              r.peer_id = q.peer_id => r = q

\* ------------------------------------------------------------ statistics
InCycle(cycleId) == {r \in feedback_requests : r.cycle_id = cycleId}

WithStatus(cycleId, status) == {r \in InCycle(cycleId) : r.status = status}

C22_TerminalCycleStatus ==
  [][/\ \A c \in feedback_cycles :
          c.status \in {"completed", "archived"} => c \in feedback_cycles'
     /\ \A d \in feedback_cycles' :
          (\A c \in feedback_cycles : c.id # d.id) => d.status = "active"]_vars

\* a created cycle was closed, and a later autoCloseCycles pass ran over it
C22_Witness ==
  /\ proc[2].pc = "autoClosed"
  /\ proc[2].queue = <<>>
  /\ hist.closes = 2
  /\ \E c \in feedback_cycles : c.status = "completed"

\* the requests of a cycle, and those of them that are completed
CycleRequests(c) == {r \in feedback_requests : r.cycle_id = c.id}

CycleCompleted(c) == {r \in CycleRequests(c) : r.status = "completed"}

\* C23: an autoCloseCycles pass closes an active cycle exactly when its
\* completion rate is at least 90% or its end date lies at least 7 full
\* days back; every other active cycle stays active.
C23_ClosedExactlyWhenDue ==
  [][hist'.closes # hist.closes =>
       \A c \in feedback_cycles :
         c.status = "active" =>
           (([c EXCEPT !.status = "completed"] \in feedback_cycles')
              <=> \/ /\ CycleRequests(c) # {}
                     /\ 100 * Cardinality(CycleCompleted(c))
                          >= CloseRatePercent * Cardinality(CycleRequests(c))
                  \/ now - c.end_date >= CloseAfterDays * TicksPerDay)]_vars

\* the peer-type requests of one requester in one cycle
PeerRequests(cycleId, e) ==
  {r \in feedback_requests : /\ r.cycle_id = cycleId
                             /\ r.requester_id = e
                             /\ r.request_type = "peer"}

\* C26: however often assignFeedbackRequests runs on a cycle with the same
\* peersPerEmployee, with responses submitted in between, no requester has
\* more than peersPerEmployee peer-type requests in that cycle.
C26_PeerQuotaKept ==
  \A c \in feedback_cycles, e \in EmployeeIds :
    Cardinality(PeerRequests(c.id, e)) <= QuotaPeers

\* C27: a request whose status is 'completed' keeps that status through
\* every step, also a step of a reminder pass that read it while pending.
C27_CompletedStaysCompleted ==
  [][\A r \in feedback_requests :
       r.status = "completed" =>
         \E q \in feedback_requests' : q.id = r.id /\ q.status = "completed"]_vars

\* C29: no createCycle call is rejected by the store, so every call leaves
\* a cycle of its own behind.
C29_EveryCycleCallPersists ==
  \A p \in Procs :
    ~(proc[p].pc = "threw" /\ proc[p].failedAt = "createCycle")

\* C30: a chat session whose state is 'completed' keeps that state through
\* every later message or action, and no further response is stored for
\* its request.
C30_CompletedSessionFrozen ==
  [][\A s \in chat_sessions :
       s.state = "completed" =>
         /\ \E q \in chat_sessions' : q.id = s.id /\ q.state = "completed"
         /\ {r \in feedback_responses' : r.request_id = s.request_id}
              = {r \in feedback_responses : r.request_id = s.request_id}]_vars

====
